---- MODULE Spec2Model ----
(***************************************************************************)
(* A model of fonts/generate-fonts.py: the script that subsets the         *)
(* "Symbols Nerd Font" down to the LSP completion-kind icons.              *)
(*                                                                         *)
(* The script is one straight line of statements over a font object of the *)
(* fontforge library.  A font is modelled by what the script touches: the  *)
(* set of code points that carry a glyph, the selection over the encoding  *)
(* slots, and the three naming fields.  The filesystem holds two paths,    *)
(* the source font and the output font.  One run of the script is one      *)
(* process; Invoke starts the next process on the filesystem the previous  *)
(* one left behind.                                                        *)
(***************************************************************************)
EXTENDS Integers, Sequences, FiniteSets, TLC

VARIABLES
    pc,              \* the statement the interpreter is at, or how the run ended
    symbols,         \* the literal list of line 23
    unicode_values,  \* the list built by lines 85-87
    src_font,        \* the in-memory font object of line 90
    fs,              \* the filesystem: path -> file
    writable,        \* whether the output path can be written
    log,             \* the library calls this run has made, in order
    written,         \* the paths this run has written, in order
    fs0,             \* the filesystem as it was when this run started
    run,             \* the number of this run
    prev             \* how the previous run ended

vars == <<pc, symbols, unicode_values, src_font, fs, writable, log, written,
          fs0, run, prev>>

----------------------------------------------------------------------------
(* Bounds *)

\* the longest symbols list explored
MaxSymbols == 2

\* the number of runs of the script explored
MaxRuns == 2

----------------------------------------------------------------------------
(* The literals of the script *)

src_font_path == "Symbols-2048-em Nerd Font Complete Mono.ttf"

out_path == "symbols.ttf"

Paths == {src_font_path, out_path}

new_fontname == "LSPSymbols"

new_familyname == "LSP Symbols"

new_fullname == "LSP Symbols"

\* The characters a symbols list is drawn from.  Every entry of the list is
\* one character (the code point its comment names).
Chars == {"A", "B"}

\* The built-in ord: the code point of a character.
ord(char) ==
    CASE char = "A" -> 65
      [] char = "B" -> 66

\* The encoding slots of the font: a Unicode encoding has a slot for every
\* code point, with or without a glyph in it.  Slot 67 is one no symbol of
\* the list names.
Encoding == {65, 66, 67}

SymbolLists == UNION {[1..n -> Chars] : n \in 1..MaxSymbols}

----------------------------------------------------------------------------
(* Files and fonts *)

Absent ==
    [kind |-> "absent", glyphs |-> {}, fontname |-> "", familyname |-> "",
     fullname |-> ""]

\* a file that is there but is no font
Corrupt ==
    [kind |-> "corrupt", glyphs |-> {}, fontname |-> "", familyname |-> "",
     fullname |-> ""]

FontFile(glyphs, fontname, familyname, fullname) ==
    [kind |-> "font", glyphs |-> glyphs, fontname |-> fontname,
     familyname |-> familyname, fullname |-> fullname]

\* The naming a source font may come with: the Nerd Font's own, or the
\* naming of a font this script produced before.
SourceNames ==
    {<<"SymbolsNFM", "Symbols Nerd Font Mono", "Symbols Nerd Font Mono Regular">>,
     <<new_fontname, new_familyname, new_fullname>>}

SourceFiles ==
    {Absent, Corrupt}
    \cup {FontFile(g, n[1], n[2], n[3]) : g \in SUBSET Encoding, n \in SourceNames}

\* what may lie at the output path before the first run
OldOutput == FontFile({67}, "Old", "Old Family", "Old Full")

OutputFiles == {Absent, OldOutput}

\* no font object yet
NoFont ==
    [open |-> FALSE, glyphs |-> {}, selection |-> {}, fontname |-> "",
     familyname |-> "", fullname |-> ""]

NoRun == [pc |-> "none", symbols |-> <<>>, out |-> Absent]

Terminal == {"done", "LoadError", "WriteError"}

----------------------------------------------------------------------------
(* The library operations the script calls, as functions *)

\* fontforge.open: the font object of a font file
open(file) ==
    [open |-> TRUE, glyphs |-> file.glyphs, selection |-> {},
     fontname |-> file.fontname, familyname |-> file.familyname,
     fullname |-> file.fullname]

\* select as it would be if a slot named twice were unselected again
RECURSIVE select_toggle_from(_, _, _)
select_toggle_from(sel, values, i) ==
    IF i > Len(values) THEN sel
    ELSE select_toggle_from(
             (sel \ {values[i]}) \cup (({values[i]} \cap Encoding) \ sel),
             values, i + 1)

select_toggle(values) == select_toggle_from({}, values, 1)

\* selection.select(*args): the selection is emptied, then each argument, a
\* code point, selects its encoding slot, one argument after the other.
RECURSIVE select_from(_, _, _)
select_from(sel, values, i) ==
    IF i > Len(values) THEN sel
    ELSE select_from(sel \cup ({values[i]} \cap Encoding), values, i + 1)

select(values) == select_from({}, values, 1)

\* invert as it would be if it left the selection alone
invert_noop(sel) == sel

\* selection.invert(): every slot changes sides
invert(sel) == Encoding \ sel

\* font.clear(): the glyphs in the selected slots are removed
clear(glyphs, sel) == glyphs \ sel

\* font.generate(path): the font object as a font file
generate(font) ==
    FontFile(font.glyphs, font.fontname, font.familyname, font.fullname)

----------------------------------------------------------------------------
(* The run *)

Init ==
    /\ pc = "for"
    /\ symbols \in SymbolLists
    /\ unicode_values = <<>>
    /\ src_font = NoFont
    /\ fs \in {[p \in Paths |-> IF p = src_font_path THEN s ELSE o] :
                 s \in SourceFiles, o \in OutputFiles}
    /\ writable \in BOOLEAN
    /\ log = <<>>
    /\ written = <<>>
    /\ fs0 = fs
    /\ run = 1
    /\ prev = NoRun

\* lines 86-87: one turn of the loop, or its end
ForLoop ==
    /\ pc = "for"
    /\ IF Len(unicode_values) < Len(symbols)
       THEN /\ unicode_values' =
                 Append(unicode_values, ord(symbols[Len(unicode_values) + 1]))
            /\ pc' = "for"
       ELSE /\ pc' = "open"
            /\ UNCHANGED unicode_values
    /\ UNCHANGED <<symbols, src_font, fs, writable, log, written, fs0, run, prev>>

\* Open as it would be if a failed load fell back to a new, empty font
OpenFallback ==
    /\ pc = "open"
    /\ log' = Append(log, "open")
    /\ src_font' =
         IF fs[src_font_path].kind = "font"
         THEN open(fs[src_font_path]) ELSE open(Absent)
    /\ pc' = "select"
    /\ UNCHANGED <<symbols, unicode_values, fs, writable, written, fs0, run, prev>>

\* line 90: src_font = fontforge.open(src_font_path)
Open ==
    /\ pc = "open"
    /\ log' = Append(log, "open")
    /\ IF fs[src_font_path].kind = "font"
       THEN /\ src_font' = open(fs[src_font_path])
            /\ pc' = "select"
       ELSE /\ pc' = "LoadError"
            /\ UNCHANGED src_font
    /\ UNCHANGED <<symbols, unicode_values, fs, writable, written, fs0, run, prev>>

\* the arguments before the first one that has no glyph in the font
RECURSIVE present_prefix(_, _, _)
present_prefix(glyphs, values, i) ==
    IF i > Len(values) \/ values[i] \notin glyphs THEN <<>>
    ELSE <<values[i]>> \o present_prefix(glyphs, values, i + 1)

\* Select as it would be if it gave up at the first code point without a glyph
SelectUntilAbsent ==
    /\ pc = "select"
    /\ log' = Append(log, "select")
    /\ src_font' =
         [src_font EXCEPT
            !.selection = select(present_prefix(src_font.glyphs, unicode_values, 1))]
    /\ pc' = "invert"
    /\ UNCHANGED <<symbols, unicode_values, fs, writable, written, fs0, run, prev>>

\* line 93: src_font.selection.select(*unicode_values)
Select ==
    /\ pc = "select"
    /\ log' = Append(log, "select")
    /\ src_font' = [src_font EXCEPT !.selection = select(unicode_values)]
    /\ pc' = "invert"
    /\ UNCHANGED <<symbols, unicode_values, fs, writable, written, fs0, run, prev>>

\* line 94: src_font.selection.invert()
Invert ==
    /\ pc = "invert"
    /\ log' = Append(log, "invert")
    /\ src_font' = [src_font EXCEPT !.selection = invert(src_font.selection)]
    /\ pc' = "clear"
    /\ UNCHANGED <<symbols, unicode_values, fs, writable, written, fs0, run, prev>>

\* Clear as it would be if the script went on to save right after it
ClearThenSave ==
    /\ pc = "clear"
    /\ log' = Append(log, "clear")
    /\ src_font' =
         [src_font EXCEPT !.glyphs = clear(src_font.glyphs, src_font.selection)]
    /\ pc' = "generate"
    /\ UNCHANGED <<symbols, unicode_values, fs, writable, written, fs0, run, prev>>

\* line 95: src_font.clear()
Clear ==
    /\ pc = "clear"
    /\ log' = Append(log, "clear")
    /\ src_font' =
         [src_font EXCEPT !.glyphs = clear(src_font.glyphs, src_font.selection)]
    /\ pc' = "fontname"
    /\ UNCHANGED <<symbols, unicode_values, fs, writable, written, fs0, run, prev>>

\* line 98: src_font.fontname = "LSPSymbols"
SetFontname ==
    /\ pc = "fontname"
    /\ log' = Append(log, "fontname")
    /\ src_font' = [src_font EXCEPT !.fontname = new_fontname]
    /\ pc' = "familyname"
    /\ UNCHANGED <<symbols, unicode_values, fs, writable, written, fs0, run, prev>>

\* line 99: src_font.familyname = "LSP Symbols"
SetFamilyname ==
    /\ pc = "familyname"
    /\ log' = Append(log, "familyname")
    /\ src_font' = [src_font EXCEPT !.familyname = new_familyname]
    /\ pc' = "fullname"
    /\ UNCHANGED <<symbols, unicode_values, fs, writable, written, fs0, run, prev>>

\* SetFullname as it would be if the assignment were missing
SetFullnameMissing ==
    /\ pc = "fullname"
    /\ log' = Append(log, "fullname")
    /\ pc' = "generate"
    /\ UNCHANGED <<symbols, unicode_values, src_font, fs, writable, written, fs0,
                   run, prev>>

\* line 100: src_font.fullname = "LSP Symbols"
SetFullname ==
    /\ pc = "fullname"
    /\ log' = Append(log, "fullname")
    /\ src_font' = [src_font EXCEPT !.fullname = new_fullname]
    /\ pc' = "generate"
    /\ UNCHANGED <<symbols, unicode_values, fs, writable, written, fs0, run, prev>>

\* Generate as it would be if it wrote the file a second time
GenerateTwice ==
    /\ pc = "generate"
    /\ log' = Append(log, "generate")
    /\ IF writable
       THEN /\ fs' = [fs EXCEPT ![out_path] = generate(src_font)]
            /\ written' = written \o <<out_path, out_path>>
            /\ pc' = "done"
       ELSE /\ pc' = "WriteError"
            /\ UNCHANGED <<fs, written>>
    /\ UNCHANGED <<symbols, unicode_values, src_font, writable, fs0, run, prev>>

\* Generate as it would be if it refused to replace a file that is there
GenerateNoOverwrite ==
    /\ pc = "generate"
    /\ log' = Append(log, "generate")
    /\ IF writable /\ fs[out_path].kind = "absent"
       THEN /\ fs' = [fs EXCEPT ![out_path] = generate(src_font)]
            /\ written' = Append(written, out_path)
            /\ pc' = "done"
       ELSE /\ pc' = "WriteError"
            /\ UNCHANGED <<fs, written>>
    /\ UNCHANGED <<symbols, unicode_values, src_font, writable, fs0, run, prev>>

\* Generate as it would be if a failed write removed what lies at the path
GenerateCleanup ==
    /\ pc = "generate"
    /\ log' = Append(log, "generate")
    /\ IF writable
       THEN /\ fs' = [fs EXCEPT ![out_path] = generate(src_font)]
            /\ written' = Append(written, out_path)
            /\ pc' = "done"
       ELSE /\ fs' = [fs EXCEPT ![out_path] = Absent]
            /\ pc' = "WriteError"
            /\ UNCHANGED written
    /\ UNCHANGED <<symbols, unicode_values, src_font, writable, fs0, run, prev>>

\* Generate as it would be if it wrote to the path the font was opened from
GenerateToSource ==
    /\ pc = "generate"
    /\ log' = Append(log, "generate")
    /\ IF writable
       THEN /\ fs' = [fs EXCEPT ![src_font_path] = generate(src_font)]
            /\ written' = Append(written, src_font_path)
            /\ pc' = "done"
       ELSE /\ pc' = "WriteError"
            /\ UNCHANGED <<fs, written>>
    /\ UNCHANGED <<symbols, unicode_values, src_font, writable, fs0, run, prev>>

\* line 101: src_font.generate("symbols.ttf")
Generate ==
    /\ pc = "generate"
    /\ log' = Append(log, "generate")
    /\ IF writable
       THEN /\ fs' = [fs EXCEPT ![out_path] = generate(src_font)]
            /\ written' = Append(written, out_path)
            /\ pc' = "done"
       ELSE /\ pc' = "WriteError"
            /\ UNCHANGED <<fs, written>>
    /\ UNCHANGED <<symbols, unicode_values, src_font, writable, fs0, run, prev>>

\* The script is run again, as a new process: nothing of the old process is
\* left but the filesystem.
Invoke ==
    /\ pc \in Terminal
    /\ run < MaxRuns
    /\ run' = run + 1
    /\ prev' = [pc |-> pc, symbols |-> symbols, out |-> fs[out_path]]
    /\ symbols' \in SymbolLists
    /\ unicode_values' = <<>>
    /\ src_font' = NoFont
    /\ log' = <<>>
    /\ written' = <<>>
    /\ fs0' = fs
    /\ pc' = "for"
    /\ UNCHANGED <<fs, writable>>

Step ==
    \/ ForLoop
    \/ Open
    \/ Select
    \/ Invert
    \/ Clear
    \/ SetFontname
    \/ SetFamilyname
    \/ SetFullname
    \/ Generate

Next == Step \/ Invoke

Spec == Init /\ [][Next]_vars

\* The interpreter runs a started script to its end.
FairSpec == Spec /\ WF_vars(Step)

----------------------------------------------------------------------------
(* What the properties speak of *)

\* the target set: the code points of the listed symbols
TargetSet(list) == {ord(list[i]) : i \in 1..Len(list)}

\* the library calls of a whole run, in the order of the script
Order ==
    <<"open", "select", "invert", "clear", "fontname", "familyname", "fullname",
      "generate">>

\* the entries of a list
Range(s) == {s[i] : i \in 1..Len(s)}

IsPrefix(s, t) == Len(s) <= Len(t) /\ \A i \in 1..Len(s) : s[i] = t[i]

Count(s, x) == Cardinality({i \in 1..Len(s) : s[i] = x})

\* the list without the entries equal to c
RECURSIVE Without(_, _)
Without(values, c) ==
    IF values = <<>> THEN <<>>
    ELSE (IF Head(values) = c THEN <<>> ELSE <<Head(values)>>)
         \o Without(Tail(values), c)

\* the target code points that have no glyph in the source font of this run
AbsentTargets == TargetSet(symbols) \ fs0[src_font_path].glyphs

HasNewNames(f) ==
    /\ f.fontname = new_fontname
    /\ f.familyname = new_familyname
    /\ f.fullname = new_fullname

----------------------------------------------------------------------------
(* The properties *)

\* C1: after a successful run the output font has a glyph at a code point
\* if and only if the code point is in the target set and the source font
\* had a glyph there.
C1_ExactSubset ==
    pc = "done" =>
        /\ fs[out_path].kind = "font"
        /\ \A c \in Encoding :
             c \in fs[out_path].glyphs
               <=> (c \in TargetSet(symbols) /\ c \in fs0[src_font_path].glyphs)

\* a successful run that kept a glyph, dropped a glyph outside the target
\* set and had a target without a glyph
C1_Witness ==
    /\ pc = "done"
    /\ fs[out_path].glyphs # {}
    /\ fs0[src_font_path].glyphs \ TargetSet(symbols) # {}
    /\ AbsentTargets # {}

\* C2: whenever the run has written the output file, the file's fontname,
\* familyname and fullname are the three literals, whatever the source held.
C2_FixedNames ==
    (pc = "done" \/ written # <<>>) =>
        /\ fs[out_path].kind = "font"
        /\ HasNewNames(fs[out_path])
        /\ HasNewNames(src_font)

\* a successful run on a source font that had other names in all three fields
C2_Witness ==
    /\ pc = "done"
    /\ fs0[src_font_path].fontname # new_fontname
    /\ fs0[src_font_path].familyname # new_familyname
    /\ fs0[src_font_path].fullname # new_fullname
    /\ fs0[out_path].kind = "font"

\* C3: when the source path holds no loadable font, the run goes from open
\* to LoadError: open is the only library call made, nothing is written and
\* the filesystem is as the run found it.
C3_LoadError ==
    (fs0[src_font_path].kind # "font" /\ log # <<>>) =>
        /\ pc = "LoadError"
        /\ log = <<"open">>
        /\ written = <<>>
        /\ fs = fs0
        /\ ~src_font.open

\* a run ended by a missing source, and no output file
C3_Witness ==
    /\ pc = "LoadError"
    /\ fs0[src_font_path].kind = "absent"
    /\ fs[out_path].kind = "absent"

\* C4: when a target code point has no glyph in the source font and the
\* output path is writable, the run ends done with the output written, the
\* output has no glyph at that code point, and its glyphs are those the
\* list without that code point leaves.
C4_AbsentTarget ==
    (/\ pc \in Terminal
     /\ fs0[src_font_path].kind = "font"
     /\ writable
     /\ AbsentTargets # {}) =>
        /\ pc = "done"
        /\ written = <<out_path>>
        /\ \A c \in AbsentTargets :
             /\ c \notin fs[out_path].glyphs
             /\ fs[out_path].glyphs =
                  fs0[src_font_path].glyphs \cap Range(Without(unicode_values, c))

\* a successful run whose list names a code point without a glyph before one
\* with a glyph
C4_Witness ==
    /\ pc = "done"
    /\ Len(unicode_values) = 2
    /\ unicode_values[1] \in AbsentTargets
    /\ unicode_values[2] \in fs[out_path].glyphs

\* once a run has ended, a step starts the next run and leaves the files alone
OnlyRestart == pc \in Terminal => run' = run + 1 /\ fs' = fs

\* C5: every run ends; a run writes at most one file, a successful run
\* exactly one, the output path; and after a run has ended nothing happens
\* but the start of another run.
C5_TerminatesOneWrite ==
    /\ [](Len(written) <= 1)
    /\ [](pc = "done" => written = <<out_path>>)
    /\ [](pc \in {"LoadError", "WriteError"} => written = <<>>)
    /\ [][OnlyRestart]_vars
    /\ (pc \notin Terminal) ~> (pc \in Terminal)

\* a second run that has ended with its one write
C5_Witness ==
    /\ pc = "done"
    /\ run = MaxRuns
    /\ written = <<out_path>>
    /\ Count(log, "generate") = 1

\* C6: when a run that succeeded is followed by a run with the same symbols
\* list on the same source font, the second run succeeds too and the output
\* file it leaves is the one the first run left.
C6_Deterministic ==
    (/\ prev.pc = "done"
     /\ prev.symbols = symbols
     /\ pc \in Terminal) =>
        /\ pc = "done"
        /\ written = <<out_path>>
        /\ fs[out_path] = prev.out
        /\ fs[src_font_path] = fs0[src_font_path]

\* a second successful run with the list of the first, on a source font
\* with glyphs to keep and glyphs to drop
C6_Witness ==
    /\ pc = "done"
    /\ prev.pc = "done"
    /\ prev.symbols = symbols
    /\ fs[out_path].glyphs # {}
    /\ fs[out_path].glyphs # fs[src_font_path].glyphs

\* C7: when two successive successful runs have lists with the same set of
\* code points, the output file of the second is that of the first.
C7_SetOfCodePoints ==
    (/\ prev.pc = "done"
     /\ pc = "done"
     /\ TargetSet(prev.symbols) = TargetSet(symbols)) =>
        fs[out_path] = prev.out

\* two successful runs, the second list repeating the one code point of the
\* first, which has a glyph
C7_Witness ==
    /\ pc = "done"
    /\ prev.pc = "done"
    /\ Len(prev.symbols) = 1
    /\ Len(symbols) = 2
    /\ TargetSet(prev.symbols) = TargetSet(symbols)
    /\ fs[out_path].glyphs # {}

\* C8: the library calls of a run are a prefix of open, select, invert,
\* clear, the three renames, generate; and once generate has been called the
\* font object holds no glyph outside the target set and has the new names.
C8_FixedOrder ==
    /\ IsPrefix(log, Order)
    /\ Count(log, "generate") > 0 =>
         /\ src_font.glyphs \subseteq TargetSet(symbols)
         /\ src_font.selection = Encoding \ TargetSet(symbols)
         /\ HasNewNames(src_font)

\* a successful run that made every call, dropped a glyph and renamed
C8_Witness ==
    /\ pc = "done"
    /\ log = Order
    /\ fs0[src_font_path].glyphs \ TargetSet(symbols) # {}
    /\ ~HasNewNames(fs0[src_font_path])

\* C9: when the source font loads and the output path is not writable, the
\* run ends in WriteError: generate was called once, as the last call,
\* nothing was written and the filesystem is as the run found it.
C9_WriteError ==
    (/\ pc \in Terminal
     /\ fs0[src_font_path].kind = "font"
     /\ ~writable) =>
        /\ pc = "WriteError"
        /\ Count(log, "generate") = 1
        /\ log[Len(log)] = "generate"
        /\ written = <<>>
        /\ fs = fs0

\* a run ended by a failed write, with an older output file still in place
C9_Witness ==
    /\ pc = "WriteError"
    /\ fs[out_path] = OldOutput

\* C10: a run leaves the file at the source path as it found it: the only
\* path written is the output path, which is not the source path.
C10_SourceUntouched ==
    /\ fs[src_font_path] = fs0[src_font_path]
    /\ \A i \in 1..Len(written) : written[i] = out_path
    /\ out_path # src_font_path

\* a successful run whose font object lost glyphs and changed names while
\* the source file kept both
C10_Witness ==
    /\ pc = "done"
    /\ src_font.glyphs # fs[src_font_path].glyphs
    /\ src_font.fontname # fs[src_font_path].fontname
    /\ fs[src_font_path].kind = "font"

====
